---- MODULE Spec2Model ----
(***************************************************************************)
(* A model of go-raspi-temp-monitor (cmd/main.go): the start-up sequence   *)
(* of main, the test-email path, the evaluation cycle compareTemperatures, *)
(* sendEmail with its mail subprocess, and tempCheckLoop's select over the *)
(* ticker channel and the signal channel.                                  *)
(*                                                                         *)
(* Representation.                                                         *)
(*  - A string is a sequence of pieces.  A piece is a run of characters;   *)
(*    every ';' is a piece of its own, so strings.ReplaceAll(s, ";", "")   *)
(*    is the removal of the ";" pieces.  Recipients, hostnames and sensor  *)
(*    contents are written character by character.                         *)
(*  - A float64 is [k, v]: k = "num" with v the value in units of 1/Scale, *)
(*    k = "inf" with v the sign, or k = "nan".                             *)
(*  - The environment (the mail executable's file attributes, the sensor   *)
(*    file, the mail subprocess, the timer, the signals) is chosen         *)
(*    nondeterministically from small sets.                                *)
(***************************************************************************)
EXTENDS Integers, Sequences, FiniteSets, TLC

\* ---------------------------------------------------------------- bounds

\* Timer firings observed in one run (firings the ticker drops included).
MaxTicks == 2

\* The largest check interval tried; the intervals are -1 .. MaxInterval.
MaxInterval == 1

\* ------------------------------------------------------------- constants

noEmailRecipient == <<"<", "n", "o", "n", "e", ">">>

errTestEmailRequiresRecipient == "'-test-email' flag requires '-recipient' flag to be set"

appName == <<"Go-Raspi-Temp-Monitor">>

unknownHost == <<"<unknown-host>">>

\* Fixed-point units per 1.0 of a float64 value.
Scale == 10 * 1000

\* -------------------------------------------------------------- float64

F(n) == [k |-> "num", v |-> n]

NaN == [k |-> "nan", v |-> 0]

Inf(sign) == [k |-> "inf", v |-> sign]

\* Degrees (or any whole number) as a float64.
Whole(n) == F(n * Scale)

\* The position of a float64 on the extended real line (NaN excluded).
Ord(a) == IF a.k = "inf" THEN a.v * 2000000000 ELSE a.v

\* Same as FloatGT with >= in place of >.
FloatGE(a, b) == a.k # "nan" /\ b.k # "nan" /\ Ord(a) >= Ord(b)

\* float64 a > b: false as soon as one side is NaN.
FloatGT(a, b) == a.k # "nan" /\ b.k # "nan" /\ Ord(a) > Ord(b)

\* Div1000 dividing by 100.
Div100(a) == IF a.k = "num" THEN F(a.v \div 100) ELSE a

\* tempVal / 1000.0
Div1000(a) == IF a.k = "num" THEN F(a.v \div 1000) ELSE a

\* ---------------------------------------------------------------- strings

Digits == {"0", "1", "2", "3", "4", "5", "6", "7", "8", "9"}

DigitVal(c) ==
    CASE c = "0" -> 0 [] c = "1" -> 1 [] c = "2" -> 2 [] c = "3" -> 3
      [] c = "4" -> 4 [] c = "5" -> 5 [] c = "6" -> 6 [] c = "7" -> 7
      [] c = "8" -> 8 [] c = "9" -> 9

Lower(c) ==
    CASE c = "N" -> "n" [] c = "A" -> "a" [] c = "I" -> "i" [] c = "F" -> "f"
      [] c = "T" -> "t" [] c = "Y" -> "y" [] c = "E" -> "e"
      [] OTHER -> c

LowerAll(s) == [i \in 1..Len(s) |-> Lower(s[i])]

IsSpace(c) == c \in {" ", "\t", "\n", "\r"}

RECURSIVE TrimLeft(_)
TrimLeft(s) == IF s # <<>> /\ IsSpace(Head(s)) THEN TrimLeft(Tail(s)) ELSE s

RECURSIVE TrimRight(_)
TrimRight(s) ==
    IF s # <<>> /\ IsSpace(s[Len(s)])
    THEN TrimRight(SubSeq(s, 1, Len(s) - 1))
    ELSE s

\* strings.TrimSpace
TrimSpace(s) == TrimRight(TrimLeft(s))

AllDigits(s) == \A i \in 1..Len(s) : s[i] \in Digits

RECURSIVE DecVal(_)
DecVal(s) ==
    IF s = <<>> THEN 0
    ELSE 10 * DecVal(SubSeq(s, 1, Len(s) - 1)) + DigitVal(s[Len(s)])

RECURSIVE Pow10(_)
Pow10(n) == IF n <= 0 THEN 1 ELSE 10 * Pow10(n - 1)

\* The first position of s holding a member of S, or 0.
FirstIndex(s, S) ==
    IF \E i \in 1..Len(s) : s[i] \in S
    THEN CHOOSE i \in 1..Len(s) : s[i] \in S /\ \A j \in 1..(i - 1) : s[j] \notin S
    ELSE 0

\* StripSemicolons taking out the first ';' only (strings.Replace with n = 1).
StripFirstSemicolon(s) ==
    IF \A i \in 1..Len(s) : s[i] # ";" THEN s
    ELSE LET i == CHOOSE k \in 1..Len(s) : s[k] = ";" /\ \A m \in 1..(k - 1) : s[m] # ";"
         IN  SubSeq(s, 1, i - 1) \o SubSeq(s, i + 1, Len(s))

\* strings.ReplaceAll(s, ";", "")
StripSemicolons(s) == SelectSeq(s, LAMBDA c : c # ";")

\* strconv.ParseFloat(s, 64) on decimal input: [ok, val].  Accepted are
\* [sign] "inf" | "infinity" and "nan" in any letter case, and
\* [sign] digits [ "." digits ] [ ("e"|"E") [sign] digits ] with at least one
\* mantissa digit.  (Hexadecimal floats, digit-separating underscores and
\* out-of-range exponents are outside the inputs tried.)
ParseFloat(s) ==
    LET signed == s # <<>> /\ s[1] \in {"+", "-"}
        sign   == IF s # <<>> /\ s[1] = "-" THEN -1 ELSE 1
        u      == IF signed THEN Tail(s) ELSE s
        ePos   == FirstIndex(u, {"e", "E"})
        mant   == IF ePos = 0 THEN u ELSE SubSeq(u, 1, ePos - 1)
        expo   == IF ePos = 0 THEN <<>> ELSE SubSeq(u, ePos + 1, Len(u))
        eSgnd  == expo # <<>> /\ expo[1] \in {"+", "-"}
        eSign  == IF expo # <<>> /\ expo[1] = "-" THEN -1 ELSE 1
        eDig   == IF eSgnd THEN Tail(expo) ELSE expo
        dot    == FirstIndex(mant, {"."})
        ip     == IF dot = 0 THEN mant ELSE SubSeq(mant, 1, dot - 1)
        fp     == IF dot = 0 THEN <<>> ELSE SubSeq(mant, dot + 1, Len(mant))
        okNum  == /\ AllDigits(ip) /\ AllDigits(fp)
                  /\ Len(ip) + Len(fp) > 0
                  /\ ePos = 0 \/ (eDig # <<>> /\ AllDigits(eDig))
        e10    == eSign * DecVal(eDig) - Len(fp) + 4
        m      == DecVal(ip \o fp)
        mag    == IF e10 >= 0 THEN m * Pow10(e10) ELSE m \div Pow10(-e10)
    IN  IF LowerAll(u) \in {<<"i", "n", "f">>,
                            <<"i", "n", "f", "i", "n", "i", "t", "y">>}
        THEN [ok |-> TRUE, val |-> Inf(sign)]
        ELSE IF LowerAll(s) = <<"n", "a", "n">>
        THEN [ok |-> TRUE, val |-> NaN]
        ELSE IF okNum
        THEN [ok |-> TRUE, val |-> F(sign * mag)]
        ELSE [ok |-> FALSE, val |-> F(0)]

\* Two decimal digits of a number below 100.
TwoDigits(n) == IF n < 10 THEN <<"0", ToString(n)>> ELSE <<ToString(n)>>

\* fmt's %.2f (ties, which depend on the binary value, are outside the
\* inputs tried).
Fmt2f(a) ==
    IF a.k = "nan" THEN <<"NaN">>
    ELSE IF a.k = "inf" THEN (IF a.v > 0 THEN <<"+Inf">> ELSE <<"-Inf">>)
    ELSE LET abs   == IF a.v < 0 THEN -a.v ELSE a.v
             centi == (abs + 50) \div 100
         IN  (IF a.v < 0 /\ centi > 0 THEN <<"-">> ELSE <<>>)
             \o <<ToString(centi \div 100), ".">> \o TwoDigits(centi % 100)

\* ----------------------------------------------------------- environment

\* The values given to -recipient.
Recipients == {<<>>, noEmailRecipient, <<"r", ";", "c">>}

\* The values given to -threshold.
Thresholds == {Whole(60), Whole(42), NaN}

\* The values given to -interval.
Intervals == -1..MaxInterval

\* What os.Hostname gives.
HostEnvs == {[ok |-> TRUE, name |-> <<"p", ";", "i">>], [ok |-> FALSE, name |-> <<>>]}

\* What os.Stat gives for the mail executable: the error, and the file's
\* attributes (the permission bits as a number: 420 is 0644, 493 is 0755).
MailFiles ==
    {[stat |-> "notexist", isDir |-> FALSE, perm |-> 0],
     [stat |-> "error", isDir |-> FALSE, perm |-> 0],
     [stat |-> "ok", isDir |-> TRUE, perm |-> 493],
     [stat |-> "ok", isDir |-> FALSE, perm |-> 420],
     [stat |-> "ok", isDir |-> FALSE, perm |-> 493]}

\* The contents of the sensor file.
Contents ==
    {<<"4", "2", "0", "0", "0", "\n">>,
     <<" ", "6", "0", "0", "0", "0", "\n">>,
     <<"6", "5", "5", "0", "0", "\n">>,
     <<"4", "2", ".", "5">>,
     <<"N", "a", "N">>,
     <<>>,
     <<"4", "x">>}

\* The sensor file at one read.
SensorStates ==
    {[readable |-> FALSE, content |-> <<>>]}
        \cup {[readable |-> TRUE, content |-> c] : c \in Contents}

\* How cmd.Run ends, whether the context is done when sendEmail looks at it,
\* and whether the subprocess wrote to standard error.  A subprocess killed
\* by the context implies a context that is done.
MailOutcomes ==
    {o \in [run : {"nil", "exit", "spawn", "killed"}, ctxDone : BOOLEAN, stderr : BOOLEAN] :
        (o.run = "killed" => o.ctxDone) /\ (o.run = "nil" => ~o.stderr)}

Signals == {"interrupt", "terminated"}

Signo(sig) == IF sig = "interrupt" THEN 2 ELSE 15

\* ------------------------------------------------------------------ state

VARIABLES
    pc,          \* where the process is
    mode,        \* who runs the current step: none, test, initial, tick, call
    argv,        \* the command-line flags
    hostEnv,     \* what os.Hostname gives
    mailFile,    \* what os.Stat gives for mailCommand
    cfg,         \* main's cfg
    sigNotify,   \* signal.Notify has registered sigChan
    sigChan,     \* the signal channel (capacity 1)
    tickerOn,    \* the ticker exists
    tickCh,      \* ticks waiting in ticker.C (capacity 1)
    ticksFired,  \* timer firings so far
    ticksLost,   \* firings dropped because ticker.C was full
    subject,     \* sendEmail's subject argument
    body,        \* sendEmail's body argument
    mailArgs,    \* the arguments of the last mail subprocess
    mailStdin,   \* the standard input of the last mail subprocess
    sendResult,  \* what the last sendEmail returned
    mailTotal,   \* mail subprocesses run so far
    reads,       \* sensor reads so far
    lastRead,    \* the sensor file at the last getCPUTemperature, and its result
    lastRun,     \* how the last cmd.Run ended
    cyc,         \* the current (or last) evaluation cycle
    prev,        \* the outcome of the cycle before it
    log,         \* the lines logged since the current cycle began
    exitCode,    \* the exit status
    exitVia      \* the place that ended the process

vars ==
    <<pc, mode, argv, hostEnv, mailFile, cfg, sigNotify, sigChan, tickerOn, tickCh,
      ticksFired, ticksLost, subject, body, mailArgs, mailStdin, sendResult, mailTotal,
      reads, lastRead, lastRun, cyc, prev, log, exitCode, exitVia>>

\* The zero value of config.
ZeroConfig ==
    [EmailRecipient |-> <<>>, TempThreshold |-> F(0), CheckInterval |-> 0,
     TestEmailFlag |-> FALSE, Hostname |-> <<>>]

NoCycle ==
    [mode |-> "none", done |-> FALSE, raw |-> [readable |-> FALSE, content |-> <<>>],
     err |-> "nil", temp |-> F(0), compared |-> FALSE, alert |-> FALSE,
     mailRuns |-> 0, sent |-> "none"]

NoPrev == [mode |-> "none", err |-> "nil", alert |-> FALSE, sent |-> "none"]

\* No call of getCPUTemperature yet, and no cmd.Run yet.
NoRead == [raw |-> [readable |-> FALSE, content |-> <<>>], err |-> "none", val |-> F(0)]

NoRun == [run |-> "none", ctxDone |-> FALSE, stderr |-> FALSE]

\* The state every run starts from, but for pc, mode and cfg.
Fresh ==
    /\ sigNotify = FALSE
    /\ sigChan = <<>>
    /\ tickerOn = FALSE
    /\ tickCh = 0
    /\ ticksFired = 0
    /\ ticksLost = 0
    /\ mailArgs = <<>>
    /\ mailStdin = <<>>
    /\ sendResult = "none"
    /\ mailTotal = 0
    /\ reads = 0
    /\ lastRead = NoRead
    /\ lastRun = NoRun
    /\ cyc = NoCycle
    /\ prev = NoPrev
    /\ log = <<>>
    /\ exitCode = -1
    /\ exitVia = "none"

Init ==
    /\ pc = "main"
    /\ mode = "none"
    /\ argv \in [recipient : Recipients, threshold : Thresholds,
                 interval : Intervals, testEmail : BOOLEAN]
    /\ hostEnv \in HostEnvs
    /\ mailFile \in MailFiles
    /\ cfg = ZeroConfig
    /\ subject = <<>>
    /\ body = <<>>
    /\ Fresh

\* ------------------------------------------------------------- functions

\* goodbye() with a failure status when it ends the process on the failed
\* validation.
GoodbyeFailure(lines, via) ==
    /\ log' = lines \o <<"Exiting">>
    /\ pc' = "exited"
    /\ exitCode' = IF via = "validate" THEN 1 ELSE 0
    /\ exitVia' = via

\* goodbye(): log the exit line and os.Exit(0).
Goodbye(lines, via) ==
    /\ log' = lines \o <<"Exiting">>
    /\ pc' = "exited"
    /\ exitCode' = 0
    /\ exitVia' = via

\* parseFlags(): the flags' values, the hostname not yet set.
ParseFlags ==
    [EmailRecipient |-> argv.recipient, TempThreshold |-> argv.threshold,
     CheckInterval |-> argv.interval, TestEmailFlag |-> argv.testEmail,
     Hostname |-> <<>>]

\* getHostname()
GetHostname == IF hostEnv.ok THEN hostEnv.name ELSE unknownHost

\* NoExecBit looking at the owner's execute bit only (a mask of 0100).
NoOwnerExecBit(perm) == (perm \div 64) % 2 = 0

\* info.Mode()&0111 == 0
NoExecBit(perm) == (perm \div 64) % 2 = 0 /\ (perm \div 8) % 2 = 0 /\ perm % 2 = 0

\* validateMailCommand(): "nil" or the error.
ValidateMailCommand(f) ==
    CASE f.stat = "notexist" -> "notexist"
      [] f.stat = "error" -> "stat"
      [] f.stat = "ok" /\ f.isDir -> "isdir"
      [] f.stat = "ok" /\ ~f.isDir /\ NoExecBit(f.perm) -> "notexec"
      [] OTHER -> "nil"

\* showConfiguration(&cfg) puts the sentinel in the place of any recipient.
ShowConfigurationAlways(c) == [c EXCEPT !.EmailRecipient = noEmailRecipient]

\* showConfiguration(&cfg) leaves the recipient as given.
ShowConfigurationKeep(c) == c

\* showConfiguration(&cfg): what it does to the config it points to.
ShowConfiguration(c) ==
    IF c.EmailRecipient = <<>> THEN [c EXCEPT !.EmailRecipient = noEmailRecipient] ELSE c

\* getCPUTemperature parsing the content as an integer (strconv.Atoi in the
\* place of strconv.ParseFloat).
GetCPUTemperatureAtoi(s) ==
    IF ~s.readable THEN [err |-> "io", val |-> F(0)]
    ELSE LET t == TrimSpace(s.content)
             u == IF t # <<>> /\ t[1] \in {"+", "-"} THEN Tail(t) ELSE t
         IN  IF u = <<>> \/ ~AllDigits(u) THEN [err |-> "parse", val |-> F(0)]
             ELSE [err |-> "nil", val |-> Div1000(ParseFloat(t).val)]

\* getCPUTemperature(): [err, val] for the sensor file as it is.
GetCPUTemperature(s) ==
    IF ~s.readable THEN [err |-> "io", val |-> F(0)]
    ELSE LET p == ParseFloat(TrimSpace(s.content))
         IN  IF ~p.ok THEN [err |-> "parse", val |-> F(0)]
             ELSE [err |-> "nil", val |-> Div1000(p.val)]

\* Only an unreadable file counts as a failed read.
ReadFailedIoOnly(r) == r.err = "io"

\* compareTemperatures' err != nil (line 253).
ReadFailed(r) == r.err # "nil"

\* The comparison, not strict.
ExceedsOrEquals(t, c) == FloatGE(t, c.TempThreshold)

\* currentTemp > cfg.TempThreshold
ExceedsThreshold(t, c) == FloatGT(t, c.TempThreshold)

\* No send when the cycle before alerted too.
WantsEmailOnce(alert, c) == alert /\ c.EmailRecipient # noEmailRecipient /\ ~cyc.alert

\* compareTemperatures goes on to sendEmail: an alert, and a recipient that
\* is not the sentinel.
WantsEmail(alert, c) == alert /\ c.EmailRecipient # noEmailRecipient

\* The empty string taken for "no recipient".
NoRecipientEmpty(c) == c.EmailRecipient = <<>>

\* sendEmail's cfg.EmailRecipient == noEmailRecipient (line 190).
NoRecipient(c) == c.EmailRecipient = noEmailRecipient

Timestamp == <<"<time.Now() as RFC1123>">>

AlertSubject(c, t) ==
    appName \o <<": CPU Temp Alert (">> \o c.Hostname \o <<"): ">> \o Fmt2f(t) \o <<"°C">>

AlertBody(c, t) ==
    <<"Warning: CPU temperature on ">> \o c.Hostname
        \o <<" has exceeded threshold\nThreshold temp: ">> \o Fmt2f(c.TempThreshold)
        \o <<"°C\nCurrent temp: ">> \o Fmt2f(t) \o <<"°C\nTimestamp: ">> \o Timestamp

TestSubject(c) == appName \o <<": Test Alert (">> \o c.Hostname \o <<")">>

TestBody(c, t) ==
    <<"Warning: this is a test email\nHostname: ">> \o c.Hostname
        \o <<"\nCurrent CPU temperature: ">> \o Fmt2f(t) \o <<"°C\nTimestamp: ">> \o Timestamp

\* SendError going by what ended the subprocess, not by the context's state.
SendErrorByCause(o) ==
    IF o.run = "nil" THEN "nil"
    ELSE IF o.run = "killed" THEN "timeoutErr"
    ELSE "sendErr"

\* What sendEmail returns for an outcome of cmd.Run.
SendError(o) ==
    IF o.run = "nil" THEN "nil"
    ELSE IF o.ctxDone THEN "timeoutErr"
    ELSE "sendErr"

\* What sendEmail logs for an outcome of cmd.Run.
SendLog(o) ==
    IF o.run = "nil" THEN <<"Email sent successfully">>
    ELSE IF o.ctxDone
    THEN <<(IF o.stderr THEN "failed to send email. Stderr (timed out)"
            ELSE "failed to send email (timed out)")>>
    ELSE <<(IF o.stderr THEN "failed to send email. Stderr" ELSE "failed to send email")>>

\* Where compareTemperatures returns to: main's initial check goes on to
\* tempCheckLoop, a tick's check goes back to the select.
ReturnPc == IF mode = "initial" THEN "loop" ELSE "select"

\* ---------------------------------------------------------------- actions

\* main, lines 48-50: hello(), parseFlags(), getHostname().
Main ==
    /\ pc = "main"
    /\ cfg' = [ParseFlags EXCEPT !.Hostname = GetHostname]
    /\ log' = <<"Starting">>
    /\ pc' = "validate"
    /\ UNCHANGED <<mode, argv, hostEnv, mailFile, sigNotify, sigChan, tickerOn, tickCh,
                   ticksFired, ticksLost, subject, body, mailArgs, mailStdin, sendResult,
                   mailTotal, reads, lastRead, lastRun, cyc, prev, exitCode, exitVia>>

\* Validate that logs the error and goes on (no goodbye() after the log).
ValidateLogOnly ==
    /\ pc = "validate"
    /\ log' = IF ValidateMailCommand(mailFile) # "nil"
              THEN Append(log, "mail command error") ELSE log
    /\ pc' = "showConfig"
    /\ UNCHANGED <<mode, argv, hostEnv, mailFile, cfg, sigNotify, sigChan, tickerOn, tickCh,
                   ticksFired, ticksLost, subject, body, mailArgs, mailStdin, sendResult,
                   mailTotal, reads, lastRead, lastRun, cyc, prev, exitCode, exitVia>>

\* main, lines 52-55: validateMailCommand, and goodbye() on an error.
Validate ==
    /\ pc = "validate"
    /\ IF ValidateMailCommand(mailFile) # "nil"
       THEN Goodbye(Append(log, "mail command error"), "validate")
       ELSE /\ pc' = "showConfig"
            /\ UNCHANGED <<log, exitCode, exitVia>>
    /\ UNCHANGED <<mode, argv, hostEnv, mailFile, cfg, sigNotify, sigChan, tickerOn, tickCh,
                   ticksFired, ticksLost, subject, body, mailArgs, mailStdin, sendResult,
                   mailTotal, reads, lastRead, lastRun, cyc, prev>>

\* ShowConfig without main's initial check: straight on to tempCheckLoop.
ShowConfigNoInitialCheck ==
    /\ pc = "showConfig"
    /\ cfg' = ShowConfiguration(cfg)
    /\ IF cfg'.TestEmailFlag
       THEN /\ pc' = "sendTestEmail"
            /\ mode' = "test"
            /\ log' = log \o <<"Configuration">>
       ELSE /\ pc' = "loop"
            /\ mode' = "initial"
            /\ log' = log \o <<"Configuration", "Monitoring">>
    /\ UNCHANGED <<argv, hostEnv, mailFile, sigNotify, sigChan, tickerOn, tickCh,
                   ticksFired, ticksLost, subject, body, mailArgs, mailStdin, sendResult,
                   mailTotal, reads, lastRead, lastRun, cyc, prev, exitCode, exitVia>>

\* main, lines 57-68: showConfiguration(&cfg), then the test-email branch or
\* the "Monitoring" line.
ShowConfig ==
    /\ pc = "showConfig"
    /\ cfg' = ShowConfiguration(cfg)
    /\ IF cfg'.TestEmailFlag
       THEN /\ pc' = "sendTestEmail"
            /\ mode' = "test"
            /\ log' = log \o <<"Configuration">>
       ELSE /\ pc' = "compare"
            /\ mode' = "initial"
            /\ log' = log \o <<"Configuration", "Monitoring">>
    /\ UNCHANGED <<argv, hostEnv, mailFile, sigNotify, sigChan, tickerOn, tickCh,
                   ticksFired, ticksLost, subject, body, mailArgs, mailStdin, sendResult,
                   mailTotal, reads, lastRead, lastRun, cyc, prev, exitCode, exitVia>>

\* The text of an error, by its kind.
ErrText(e) ==
    IF e = "noRecipient" THEN errTestEmailRequiresRecipient
    ELSE IF e = "io" THEN "failed to read temperature file"
    ELSE IF e = "parse" THEN "failed to parse temperature value"
    ELSE IF e = "timeoutErr" THEN "failed to send email (timed out)"
    ELSE "failed to send email"

\* main's line 63: the line logged when sendTestEmail returns the error e.
TestEmailError(e) == "Error sending test email: " \o ErrText(e)

\* RequiresRecipient looking for the empty string, not for the sentinel.
RequiresRecipientEmpty(c) == c.EmailRecipient = <<>>

\* sendTestEmail's line 165: the test email has nobody to go to.
RequiresRecipient(c) == c.EmailRecipient = noEmailRecipient

\* sendTestEmail up to its call of sendEmail (lines 162-178); on an error,
\* main's lines 62-65.
SendTestEmail ==
    /\ pc = "sendTestEmail"
    /\ IF RequiresRecipient(cfg)
       THEN /\ Goodbye(Append(log, TestEmailError("noRecipient")), "test")
            /\ sendResult' = "none"
            /\ UNCHANGED <<subject, body, reads, lastRead, lastRun>>
       ELSE \E s \in SensorStates :
              LET r == GetCPUTemperature(s)
              IN  /\ reads' = reads + 1
                  /\ lastRead' = [raw |-> s, err |-> r.err, val |-> r.val]
                  /\ UNCHANGED lastRun
                  /\ IF r.err # "nil"
                     THEN /\ Goodbye(Append(log, TestEmailError(r.err)), "test")
                          /\ UNCHANGED <<subject, body>>
                     ELSE /\ subject' = TestSubject(cfg)
                          /\ body' = TestBody(cfg, r.val)
                          /\ pc' = "sendEmail"
                          /\ UNCHANGED <<log, exitCode, exitVia>>
                  /\ UNCHANGED sendResult
    /\ UNCHANGED <<mode, argv, hostEnv, mailFile, cfg, sigNotify, sigChan, tickerOn, tickCh,
                   ticksFired, ticksLost, mailArgs, mailStdin, mailTotal, cyc, prev>>

\* compareTemperatures up to its call of sendEmail (lines 250-274).  The log
\* starts anew with the cycle.
CompareTemperatures ==
    /\ pc = "compare"
    /\ \E s \in SensorStates :
         LET r      == GetCPUTemperature(s)
             failed == ReadFailed(r)
             alert  == ~failed /\ ExceedsThreshold(r.val, cfg)
             notify == WantsEmail(alert, cfg)
         IN  /\ cyc' = [mode |-> mode, done |-> ~notify, raw |-> s, err |-> r.err,
                        temp |-> r.val, compared |-> ~failed, alert |-> alert,
                        mailRuns |-> 0, sent |-> "none"]
             /\ lastRead' = [raw |-> s, err |-> r.err, val |-> r.val]
             /\ log' = IF failed THEN <<"Error reading CPU temperature">>
                       ELSE <<"Current CPU temperature">>
                            \o (IF ~alert THEN <<>>
                                ELSE IF notify THEN <<"ALERT", "Sending email notification">>
                                ELSE <<"ALERT", "No recipient configured">>)
             /\ IF notify
                THEN /\ subject' = AlertSubject(cfg, r.val)
                     /\ body' = AlertBody(cfg, r.val)
                     /\ pc' = "sendEmail"
                ELSE /\ pc' = ReturnPc
                     /\ UNCHANGED <<subject, body>>
    /\ prev' = [mode |-> cyc.mode, err |-> cyc.err, alert |-> cyc.alert, sent |-> cyc.sent]
    /\ reads' = reads + 1
    /\ UNCHANGED <<mode, argv, hostEnv, mailFile, cfg, sigNotify, sigChan, tickerOn, tickCh,
                   ticksFired, ticksLost, mailArgs, mailStdin, sendResult, mailTotal,
                   lastRun, exitCode, exitVia>>

\* AfterSend with main going on to the monitoring after the test email (no
\* goodbye() at the end of the test-email branch).
AfterSendTestGoesOn(res, lines) ==
    /\ sendResult' = res
    /\ IF mode \in {"initial", "tick"}
       THEN /\ log' = lines \o (IF res # "nil" THEN <<"Error sending alert email">> ELSE <<>>)
            /\ cyc' = [cyc EXCEPT !.done = TRUE, !.sent = res]
            /\ pc' = ReturnPc
            /\ UNCHANGED <<exitCode, exitVia>>
       ELSE IF mode = "test"
       THEN /\ log' = lines \o (IF res # "nil" THEN <<TestEmailError(res)>> ELSE <<>>)
                         \o <<"Monitoring">>
            /\ pc' = "compare"
            /\ UNCHANGED <<cyc, exitCode, exitVia>>
       ELSE /\ log' = lines
            /\ pc' = "returned"
            /\ UNCHANGED <<cyc, exitCode, exitVia>>

\* AfterSend with a failed alert send ending the process (as log.Fatalf would).
AfterSendFatal(res, lines) ==
    /\ sendResult' = res
    /\ IF mode \in {"initial", "tick"}
       THEN /\ log' = lines \o (IF res # "nil" THEN <<"Error sending alert email">> ELSE <<>>)
            /\ cyc' = [cyc EXCEPT !.done = TRUE, !.sent = res]
            /\ pc' = IF res # "nil" THEN "exited" ELSE ReturnPc
            /\ exitCode' = IF res # "nil" THEN 1 ELSE exitCode
            /\ exitVia' = IF res # "nil" THEN "fatal" ELSE exitVia
       ELSE IF mode = "test"
       THEN /\ Goodbye(lines \o (IF res # "nil" THEN <<TestEmailError(res)>> ELSE <<>>),
                       "test")
            /\ UNCHANGED cyc
       ELSE /\ log' = lines
            /\ pc' = "returned"
            /\ UNCHANGED <<cyc, exitCode, exitVia>>

\* AfterSend with one more attempt after a failed alert send.
AfterSendRetry(res, lines) ==
    /\ sendResult' = res
    /\ IF mode \in {"initial", "tick"}
       THEN /\ log' = lines \o (IF res # "nil" THEN <<"Error sending alert email">> ELSE <<>>)
            /\ cyc' = [cyc EXCEPT !.done = (res = "nil" \/ cyc.mailRuns >= 2), !.sent = res]
            /\ pc' = IF res = "nil" \/ cyc.mailRuns >= 2 THEN ReturnPc ELSE "sendEmail"
            /\ UNCHANGED <<exitCode, exitVia>>
       ELSE IF mode = "test"
       THEN /\ Goodbye(lines \o (IF res # "nil" THEN <<TestEmailError(res)>> ELSE <<>>),
                       "test")
            /\ UNCHANGED cyc
       ELSE /\ log' = lines
            /\ pc' = "returned"
            /\ UNCHANGED <<cyc, exitCode, exitVia>>

\* What follows sendEmail's return of res with the lines logged so far:
\* compareTemperatures' lines 275-279, or sendTestEmail's lines 180-184 and
\* main's lines 62-65, or the return to a direct caller.
AfterSend(res, lines) ==
    /\ sendResult' = res
    /\ IF mode \in {"initial", "tick"}
       THEN /\ log' = lines \o (IF res # "nil" THEN <<"Error sending alert email">> ELSE <<>>)
            /\ cyc' = [cyc EXCEPT !.done = TRUE, !.sent = res]
            /\ pc' = ReturnPc
            /\ UNCHANGED <<exitCode, exitVia>>
       ELSE IF mode = "test"
       THEN /\ Goodbye(lines \o (IF res # "nil" THEN <<TestEmailError(res)>> ELSE <<>>),
                       "test")
            /\ UNCHANGED cyc
       ELSE /\ log' = lines
            /\ pc' = "returned"
            /\ UNCHANGED <<cyc, exitCode, exitVia>>

\* sendEmail up to cmd.Run (lines 188-207).
SendEmail ==
    /\ pc = "sendEmail"
    /\ IF NoRecipient(cfg)
       THEN /\ AfterSend("nil", Append(log, "Email recipient not set"))
            /\ UNCHANGED <<mailArgs, mailStdin, mailTotal>>
       ELSE /\ mailArgs' = <<<<"-s">>, StripSemicolons(subject),
                             StripSemicolons(cfg.EmailRecipient)>>
            /\ mailStdin' = body
            /\ mailTotal' = mailTotal + 1
            /\ cyc' = IF mode \in {"initial", "tick"}
                      THEN [cyc EXCEPT !.mailRuns = @ + 1] ELSE cyc
            /\ log' = Append(log, "Attempting to send email")
            /\ pc' = "mailRun"
            /\ UNCHANGED <<sendResult, exitCode, exitVia>>
    /\ UNCHANGED <<mode, argv, hostEnv, mailFile, cfg, sigNotify, sigChan, tickerOn, tickCh,
                   ticksFired, ticksLost, subject, body, reads, lastRead, lastRun, prev>>

\* cmd.Run returns (within the context's 15 s), and sendEmail's lines 209-229.
MailRun ==
    /\ pc = "mailRun"
    /\ \E o \in MailOutcomes :
         /\ lastRun' = o
         /\ AfterSend(SendError(o), log \o SendLog(o))
    /\ UNCHANGED <<mode, argv, hostEnv, mailFile, cfg, sigNotify, sigChan, tickerOn, tickCh,
                   ticksFired, ticksLost, subject, body, mailArgs, mailStdin, mailTotal,
                   reads, lastRead, prev>>

\* tempCheckLoop, lines 76-81: time.NewTicker, which panics unless the
\* interval is positive, and signal.Notify.
LoopSetup ==
    /\ pc = "loop"
    /\ IF cfg.CheckInterval <= 0
       THEN /\ pc' = "exited"
            /\ exitCode' = 2
            /\ exitVia' = "panic"
            /\ UNCHANGED <<tickerOn, sigNotify>>
       ELSE /\ pc' = "select"
            /\ tickerOn' = TRUE
            /\ sigNotify' = TRUE
            /\ UNCHANGED <<exitCode, exitVia>>
    /\ UNCHANGED <<mode, argv, hostEnv, mailFile, cfg, sigChan, tickCh, ticksFired, ticksLost,
                   subject, body, mailArgs, mailStdin, sendResult, mailTotal, reads, lastRead,
                   lastRun, cyc,
                   prev, log>>

\* TickCase taking a tick also while the mail subprocess of the cycle before
\* runs (the cycle started aside, as "go compareTemperatures(cfg)" would).
TickCaseOverlapping ==
    /\ pc \in {"select", "mailRun"}
    /\ tickCh > 0
    /\ tickCh' = tickCh - 1
    /\ mode' = "tick"
    /\ pc' = "compare"
    /\ UNCHANGED <<argv, hostEnv, mailFile, cfg, sigNotify, sigChan, tickerOn, ticksFired,
                   ticksLost, subject, body, mailArgs, mailStdin, sendResult, mailTotal,
                   reads, lastRead, lastRun, cyc, prev, log, exitCode, exitVia>>

\* The select's case <-ticker.C (lines 85-86): the call of compareTemperatures.
TickCase ==
    /\ pc = "select"
    /\ tickCh > 0
    /\ tickCh' = tickCh - 1
    /\ mode' = "tick"
    /\ pc' = "compare"
    /\ UNCHANGED <<argv, hostEnv, mailFile, cfg, sigNotify, sigChan, tickerOn, ticksFired,
                   ticksLost, subject, body, mailArgs, mailStdin, sendResult, mailTotal,
                   reads, lastRead, lastRun, cyc, prev, log, exitCode, exitVia>>

\* SignalCase taken only when no tick waits (a select that looks at the
\* ticker first).
SignalCaseAfterTicks ==
    /\ pc = "select"
    /\ tickCh = 0
    /\ sigChan # <<>>
    /\ sigChan' = Tail(sigChan)
    /\ Goodbye(Append(log, "Received signal " \o Head(sigChan)), "shutdown")
    /\ UNCHANGED <<mode, argv, hostEnv, mailFile, cfg, sigNotify, tickerOn, tickCh, ticksFired,
                   ticksLost, subject, body, mailArgs, mailStdin, sendResult, mailTotal,
                   reads, lastRead, lastRun, cyc, prev>>

\* SignalCase that logs the signal and the exit line and goes round the loop
\* again (a goodbye() that does not end the process).
SignalCaseGoesOn ==
    /\ pc = "select"
    /\ sigChan # <<>>
    /\ sigChan' = Tail(sigChan)
    /\ log' = Append(log, "Received signal " \o Head(sigChan)) \o <<"Exiting">>
    /\ exitCode' = 0
    /\ exitVia' = "shutdown"
    /\ UNCHANGED <<pc, mode, argv, hostEnv, mailFile, cfg, sigNotify, tickerOn, tickCh,
                   ticksFired, ticksLost, subject, body, mailArgs, mailStdin, sendResult,
                   mailTotal, reads, lastRead, lastRun, cyc, prev>>

\* The select's case sig := <-sigChan (lines 88-91).
SignalCase ==
    /\ pc = "select"
    /\ sigChan # <<>>
    /\ sigChan' = Tail(sigChan)
    /\ Goodbye(Append(log, "Received signal " \o Head(sigChan)), "shutdown")
    /\ UNCHANGED <<mode, argv, hostEnv, mailFile, cfg, sigNotify, tickerOn, tickCh, ticksFired,
                   ticksLost, subject, body, mailArgs, mailStdin, sendResult, mailTotal,
                   reads, lastRead, lastRun, cyc, prev>>

\* TimerFire with a channel that keeps every tick (no tick is dropped).
TimerFireQueueing ==
    /\ tickerOn
    /\ pc # "exited"
    /\ ticksFired < MaxTicks
    /\ ticksFired' = ticksFired + 1
    /\ tickCh' = tickCh + 1
    /\ UNCHANGED <<pc, mode, argv, hostEnv, mailFile, cfg, sigNotify, sigChan, tickerOn,
                   ticksLost, subject, body, mailArgs, mailStdin, sendResult, mailTotal, reads,
                   lastRead, lastRun, cyc, prev, log, exitCode, exitVia>>

\* The timer fires: the tick goes into ticker.C, or is dropped when a tick
\* is waiting there already.
TimerFire ==
    /\ tickerOn
    /\ pc # "exited"
    /\ ticksFired < MaxTicks
    /\ ticksFired' = ticksFired + 1
    /\ IF tickCh < 1
       THEN tickCh' = tickCh + 1 /\ UNCHANGED ticksLost
       ELSE ticksLost' = ticksLost + 1 /\ UNCHANGED tickCh
    /\ UNCHANGED <<pc, mode, argv, hostEnv, mailFile, cfg, sigNotify, sigChan, tickerOn,
                   subject, body, mailArgs, mailStdin, sendResult, mailTotal, reads, lastRead,
                   lastRun, cyc,
                   prev, log, exitCode, exitVia>>

\* SIGINT or SIGTERM reaches the process.  Once signal.Notify has registered
\* sigChan the signal goes into it, or is dropped when one waits there;
\* before that, the Go runtime's default ends the process by the signal
\* (no line logged; the status written as a shell shows it, 128 + the
\* signal's number).
DeliverSignal ==
    /\ pc # "exited"
    /\ \E sig \in Signals :
         IF sigNotify
         THEN /\ sigChan' = IF Len(sigChan) < 1 THEN Append(sigChan, sig) ELSE sigChan
              /\ UNCHANGED <<pc, exitCode, exitVia>>
         ELSE /\ pc' = "exited"
              /\ exitCode' = 128 + Signo(sig)
              /\ exitVia' = "sigdefault"
              /\ UNCHANGED sigChan
    /\ UNCHANGED <<mode, argv, hostEnv, mailFile, cfg, sigNotify, tickerOn, tickCh, ticksFired,
                   ticksLost, subject, body, mailArgs, mailStdin, sendResult, mailTotal,
                   reads, lastRead, lastRun, cyc, prev, log>>

Next ==
    \/ Main
    \/ Validate
    \/ ShowConfig
    \/ SendTestEmail
    \/ CompareTemperatures
    \/ SendEmail
    \/ MailRun
    \/ LoopSetup
    \/ TickCase
    \/ SignalCase
    \/ TimerFire
    \/ DeliverSignal

Spec == Init /\ [][Next]_vars

\* The steps the process takes by itself: it never stays where it is, and
\* cmd.Run returns within the context's deadline.
ProgramStep ==
    \/ Main
    \/ Validate
    \/ ShowConfig
    \/ SendTestEmail
    \/ CompareTemperatures
    \/ SendEmail
    \/ MailRun
    \/ LoopSetup
    \/ TickCase
    \/ SignalCase

FairSpec == Spec /\ WF_vars(ProgramStep)

\* ------------------------------------------------- sendEmail, called alone

\* The subjects and bodies a direct call of sendEmail is given.
Subjects == {<<>>, <<"s">>, <<";">>, <<"a", ";", "b", ";">>}

Bodies == {<<>>, <<"b">>, <<"x", ";", "y">>}

CallRecipients == Recipients \cup {<<"a", "@", "b">>}

InitSend ==
    /\ pc = "sendEmail"
    /\ mode = "call"
    /\ argv = [recipient |-> <<>>, threshold |-> Whole(60), interval |-> 1,
               testEmail |-> FALSE]
    /\ hostEnv = [ok |-> FALSE, name |-> <<>>]
    /\ mailFile = [stat |-> "ok", isDir |-> FALSE, perm |-> 493]
    /\ cfg \in [EmailRecipient : CallRecipients, TempThreshold : {Whole(60)},
                CheckInterval : {1}, TestEmailFlag : {FALSE}, Hostname : {unknownHost}]
    /\ subject \in Subjects
    /\ body \in Bodies
    /\ Fresh

NextSend == SendEmail \/ MailRun

SendSpec == InitSend /\ [][NextSend]_vars

\* ----------------------------------------------------------------- claims

InLog(line) == \E i \in 1..Len(log) : log[i] = line

\* The process is past main's "Monitoring" line.
Monitoring == mode \in {"initial", "tick"}

\* The sensor file of the cycle could not be read or parsed.
SensorUnusable(raw) == ~raw.readable \/ ~ParseFloat(TrimSpace(raw.content)).ok

\* C1: in a cycle whose read succeeded, the alert is logged if and only if
\* the reading is greater than the threshold; a reading equal to or below the
\* threshold logs no alert, runs no mail subprocess and ends the cycle.
C1_AlertIffAboveThreshold ==
    (cyc.mode # "none" /\ cyc.err = "nil") =>
        LET above == FloatGT(cyc.temp, cfg.TempThreshold)
        IN  /\ InLog("ALERT") <=> above
            /\ cyc.alert <=> above
            /\ ~above => /\ cyc.mailRuns = 0
                         /\ cyc.done
                         /\ pc \notin {"sendEmail", "mailRun"}

\* A finished cycle whose reading equals the threshold, with no alert.
C1_Witness ==
    /\ pc = "select"
    /\ cyc.done
    /\ cyc.err = "nil"
    /\ cyc.temp = cfg.TempThreshold
    /\ ~InLog("ALERT")

\* C2: every cycle (the initial one and every tick's) that reads a value above
\* the threshold with a recipient configured runs the mail subprocess once,
\* whatever the cycles before it read, alerted and sent; until then it is on
\* its way to the send.
C2_NoRepeatSuppression ==
    (/\ cyc.mode # "none"
     /\ cyc.err = "nil"
     /\ FloatGT(cyc.temp, cfg.TempThreshold)
     /\ cfg.EmailRecipient # noEmailRecipient) =>
        IF cyc.done THEN cyc.mailRuns = 1
        ELSE pc \in {"sendEmail", "mailRun", "exited"}

\* A tick's cycle that sent again, right after a cycle that alerted and whose
\* send succeeded.
C2_Witness ==
    /\ cyc.mode = "tick"
    /\ cyc.done
    /\ cyc.mailRuns = 1
    /\ prev.alert
    /\ prev.sent = "nil"

\* C3: a process that SIGINT or SIGTERM ended while monitoring (from the start
\* of the initial cycle on) logged the signal and exited with code 0.
C3_SignalEndsWithLogAndZero ==
    (pc = "exited" /\ Monitoring /\ exitVia \in {"shutdown", "sigdefault"}) =>
        /\ exitCode = 0
        /\ \E sig \in Signals : InLog("Received signal " \o sig)

\* C4: a process that SIGINT or SIGTERM ended has no evaluation cycle in
\* flight: the initial cycle and every tick's cycle ran to its end.
C4_NoCycleCutShort ==
    (pc = "exited" /\ exitVia \in {"shutdown", "sigdefault"}) =>
        (cyc.mode = "none" \/ cyc.done)

\* C5: main runs exactly one evaluation cycle right after the configuration
\* is shown; it is the first cycle, the ticker is created only after it is
\* done, and a tick is handled only once the ticker exists.
C5_OneInitialCycleFirst ==
    /\ (pc = "compare" /\ mode = "initial") =>
           /\ log = <<"Starting", "Configuration", "Monitoring">>
           /\ reads = 0
           /\ cyc.mode = "none"
           /\ ~tickerOn
    /\ (Monitoring /\ cyc.mode = "initial") => reads = 1
    /\ (Monitoring /\ reads >= 2) => cyc.mode = "tick" /\ prev.mode # "none"
    /\ pc = "loop" => reads = 1 /\ cyc.mode = "initial" /\ cyc.done /\ ~tickerOn
    /\ tickerOn => reads >= 1 /\ (reads = 1 => cyc.mode = "initial" /\ cyc.done)
    /\ (mode = "tick" \/ tickCh > 0 \/ ticksFired > 0) => tickerOn

\* The initial cycle is done and the first tick waits in the ticker channel.
C5_Witness ==
    /\ pc = "select"
    /\ tickCh = 1
    /\ reads = 1
    /\ cyc.mode = "initial"
    /\ cyc.done

\* C6: a cycle whose sensor file is unreadable or unparsable only logs the
\* error: it compares nothing, runs no mail subprocess, and returns to where
\* a cycle returns (on to the loop, or back to the select) with the process
\* alive.
C6_FailedReadSkipsCycle ==
    /\ [][(pc = "compare" /\ reads' = reads + 1 /\ SensorUnusable(cyc'.raw)) =>
             /\ log' = <<"Error reading CPU temperature">>
             /\ cyc'.done /\ ~cyc'.compared /\ ~cyc'.alert
             /\ mailTotal' = mailTotal
             /\ pc' = (IF mode = "initial" THEN "loop" ELSE "select")
             /\ exitVia' = exitVia]_vars
    /\ [](cyc.mode # "none" /\ SensorUnusable(cyc.raw) =>
             /\ cyc.mailRuns = 0 /\ cyc.sent = "none" /\ cyc.err # "nil"
             /\ ~InLog("ALERT"))

\* A tick's cycle that read and compared, right after a cycle whose content
\* could not be parsed.
C6_Witness ==
    /\ cyc.mode = "tick"
    /\ cyc.done
    /\ cyc.compared
    /\ prev.err = "parse"

C8_OnlySignalsEndMonitoring ==
    (pc = "exited" /\ Monitoring) => exitVia \in {"shutdown", "sigdefault"}

\* C9: sendEmail called with the sentinel recipient returns nil and runs no
\* mail subprocess, whatever the subject and the body.
C9_SentinelSendsNothing ==
    cfg.EmailRecipient = noEmailRecipient =>
        /\ pc # "mailRun"
        /\ mailTotal = 0
        /\ mailArgs = <<>>
        /\ pc = "returned" => sendResult = "nil" /\ log = <<"Email recipient not set">>

\* sendEmail has returned from a call with the sentinel recipient and a
\* subject holding semicolons.
C9_Witness ==
    /\ pc = "returned"
    /\ cfg.EmailRecipient = noEmailRecipient
    /\ subject = <<"a", ";", "b", ";">>
    /\ body = <<"x", ";", "y">>
    /\ sendResult = "nil"

\* C10: monitoring with no -recipient given never runs the mail subprocess;
\* a cycle that alerts logs the alert and that no recipient is configured,
\* logs no error, and returns to where a cycle returns with the process
\* alive.
C10_NoRecipientNoMail ==
    /\ []((Monitoring /\ argv.recipient = <<>>) =>
             /\ mailTotal = 0
             /\ pc \notin {"sendEmail", "mailRun"}
             /\ cyc.alert =>
                    /\ cyc.done
                    /\ SubSeq(log, 1, 3)
                         = <<"Current CPU temperature", "ALERT", "No recipient configured">>
                    /\ ~InLog("Error sending alert email"))
    /\ [][(/\ pc = "compare" /\ reads' = reads + 1
           /\ argv.recipient = <<>>
           /\ FloatGT(cyc'.temp, cfg.TempThreshold) /\ cyc'.err = "nil") =>
             /\ cyc'.alert
             /\ pc' = (IF mode = "initial" THEN "loop" ELSE "select")
             /\ exitVia' = exitVia]_vars

\* Two cycles in a row alerted with no recipient given, and the process is
\* back at the select.
C10_Witness ==
    /\ pc = "select"
    /\ argv.recipient = <<>>
    /\ cyc.mode = "tick"
    /\ cyc.alert
    /\ prev.alert
    /\ mailTotal = 0

\* The test-email branch is running (or has ended the process) with a
\* recipient configured.
TestModeWithRecipient == mode = "test" /\ cfg.EmailRecipient # noEmailRecipient

\* The one mail subprocess of the test email: the test subject, the
\* recipient, and the test body with the temperature read, on its input.
TestMailRan ==
    /\ mailTotal = 1
    /\ mailArgs = <<<<"-s">>, StripSemicolons(TestSubject(cfg)),
                    StripSemicolons(cfg.EmailRecipient)>>
    /\ mailStdin = TestBody(cfg, lastRead.val)

\* Test mode never sets up the loop and never evaluates a threshold.
TestModeNoMonitoring ==
    /\ ~tickerOn
    /\ ~sigNotify
    /\ cyc = NoCycle
    /\ pc \in {"sendTestEmail", "sendEmail", "mailRun", "exited"}
    /\ ticksFired = 0
    /\ mailTotal <= 1
    /\ reads <= 1

\* The return of the send ends the process at once with code 0, whatever
\* the send's result.
TestModeExitsAfterSend ==
    [][(mode = "test" /\ pc = "mailRun" /\ pc' # "mailRun" /\ exitVia' # "sigdefault") =>
          /\ pc' = "exited"
          /\ exitVia' = "test"
          /\ exitCode' = 0
          /\ mailTotal' = 1]_vars

C12_TestModeNeedsRecipient ==
    (argv.testEmail /\ argv.recipient = <<>> /\ mode = "test") =>
        /\ reads = 0
        /\ lastRead = NoRead
        /\ mailTotal = 0
        /\ lastRun = NoRun
        /\ sendResult = "none"
        /\ pc \in {"sendTestEmail", "exited"}
        /\ (pc = "exited" /\ exitVia = "test") =>
               /\ exitCode = 0
               /\ InLog("Error sending test email: " \o errTestEmailRequiresRecipient)
               /\ log[Len(log)] = "Exiting"

\* The test-email run with no recipient has ended.
C12_Witness ==
    /\ argv.testEmail
    /\ argv.recipient = <<>>
    /\ pc = "exited"
    /\ exitVia = "test"

\* At least one of the three execute bits (owner, group, other) is set.
HasExecBit(perm) == \E b \in {1, 8, 64} : (perm \div b) % 2 = 1

\* The mail executable is missing, cannot be examined, is a directory, or
\* has no execute bit.
BadMailFile == mailFile.stat # "ok" \/ mailFile.isDir \/ ~HasExecBit(mailFile.perm)

\* C13: when the validation of the mail executable fails, the process logs
\* the error and exits before anything else: no sensor read, no cycle, no
\* test email, no mail subprocess, no ticker and no signal registration.
C13_ValidationFailureAbortsStartup ==
    BadMailFile =>
        /\ pc \in {"main", "validate", "exited"}
        /\ mode = "none"
        /\ reads = 0
        /\ lastRead = NoRead
        /\ mailTotal = 0
        /\ lastRun = NoRun
        /\ cyc = NoCycle
        /\ ~tickerOn
        /\ ~sigNotify
        /\ exitVia \in {"none", "validate", "sigdefault"}
        /\ exitVia = "validate" => InLog("mail command error") /\ ~InLog("Configuration")

\* The mail executable is not executable, the test email was asked for, and
\* the process has ended at the validation.
C13_Witness ==
    /\ mailFile = [stat |-> "ok", isDir |-> FALSE, perm |-> 420]
    /\ argv.testEmail
    /\ pc = "exited"
    /\ exitVia = "validate"

\* ----------------------------------------- validateMailCommand, called alone

\* The nine permission bits, 0000 to 0777.
Perms == 0..511

\* Every answer of os.Stat: the path missing, another error, or a file with
\* its attributes.
AllMailFiles == [stat : {"notexist", "error", "ok"}, isDir : BOOLEAN, perm : Perms]

InitValidate ==
    /\ pc = "validate"
    /\ mode = "none"
    /\ argv = [recipient |-> <<>>, threshold |-> Whole(60), interval |-> 1,
               testEmail |-> FALSE]
    /\ hostEnv = [ok |-> FALSE, name |-> <<>>]
    /\ mailFile \in AllMailFiles
    /\ cfg = [EmailRecipient |-> <<>>, TempThreshold |-> Whole(60), CheckInterval |-> 1,
              TestEmailFlag |-> FALSE, Hostname |-> unknownHost]
    /\ subject = <<>>
    /\ body = <<>>
    /\ Fresh

NextValidate == Validate

ValidateSpec == InitValidate /\ [][NextValidate]_vars

\* validateMailCommand has returned an error: main has logged it and ended
\* the process; or it has returned nil: main goes on.
ValidateFailed == pc = "exited" /\ exitVia = "validate" /\ InLog("mail command error")

ValidatePassed == pc = "showConfig" /\ exitVia = "none" /\ ~InLog("mail command error")

\* C14: validateMailCommand returns an error for a path that does not exist,
\* for a directory, and for a path with none of the three execute bits, and
\* no error for an existing non-directory with at least one execute bit, for
\* every combination of the attributes.
C14_ValidateMailCommand ==
    pc # "validate" =>
        /\ mailFile.stat = "notexist" => ValidateFailed
        /\ (mailFile.stat = "ok" /\ mailFile.isDir) => ValidateFailed
        /\ (mailFile.stat = "ok" /\ ~HasExecBit(mailFile.perm)) => ValidateFailed
        /\ (mailFile.stat = "ok" /\ ~mailFile.isDir /\ HasExecBit(mailFile.perm))
              => ValidatePassed

\* A file whose only execute bit is the one for others (0001) has passed.
C14_Witness ==
    /\ mailFile = [stat |-> "ok", isDir |-> FALSE, perm |-> 1]
    /\ ValidatePassed

\* C15: every end of the process by its own decision has exit code 0: the
\* shutdown on a signal taken at the select, the end of the test-email run
\* (the send succeeded, failed, or had no recipient), and the failed
\* validation of the mail executable; each logs the exit line last.
C15_OwnExitsAreZero ==
    /\ (pc = "exited" /\ exitVia \in {"shutdown", "test", "validate"}) =>
           /\ exitCode = 0
           /\ log[Len(log)] = "Exiting"
    /\ (pc = "exited" /\ InLog("Exiting")) => exitCode = 0
    /\ (pc = "exited" /\ (\E sig \in Signals : InLog("Received signal " \o sig))) =>
           exitVia = "shutdown" /\ exitCode = 0
    /\ (pc = "exited" /\ InLog("mail command error")) => exitCode = 0
    /\ (pc = "exited" /\ mode = "test" /\ exitVia # "sigdefault") =>
           exitVia = "test" /\ exitCode = 0

\* The test-email run has ended after a send that failed.
C15_Witness ==
    /\ pc = "exited"
    /\ exitVia = "test"
    /\ sendResult = "sendErr"
    /\ exitCode = 0

\* sendEmail has run the mail subprocess and has returned.
SendReturned == pc = "returned" /\ mailTotal = 1 /\ lastRun \in MailOutcomes

\* The 15-second deadline has passed when sendEmail examines cmd.Run's error.
DeadlineExceeded == lastRun.run # "nil" /\ lastRun.ctxDone

\* C16 as stated: a zero exit gives success; a non-zero exit or a spawn
\* failure gives a send error that is not the timeout error; the timeout
\* error is returned exactly when the deadline was exceeded.
C16_ClassifiesByOutcome ==
    SendReturned =>
        /\ lastRun.run = "nil" <=> sendResult = "nil"
        /\ lastRun.run \in {"exit", "spawn"} => sendResult = "sendErr"
        /\ DeadlineExceeded <=> sendResult = "timeoutErr"

\* C16, amended: a zero exit gives success; a non-zero exit or a spawn
\* failure gives a send error that is not the timeout error as long as the
\* deadline has not passed when sendEmail examines the failure; the timeout
\* error is returned exactly when cmd.Run has failed and the deadline has
\* passed by then, whether the context killed the subprocess or the
\* subprocess failed by itself just before.
C16_ClassifiesByContext ==
    SendReturned =>
        /\ lastRun.run = "nil" <=> sendResult = "nil"
        /\ (lastRun.run \in {"exit", "spawn"} /\ ~lastRun.ctxDone) => sendResult = "sendErr"
        /\ DeadlineExceeded <=> sendResult = "timeoutErr"
        /\ lastRun.run = "killed" => sendResult = "timeoutErr"
        /\ sendResult \in {"nil", "sendErr", "timeoutErr"}

\* The subprocess exited non-zero by itself, the deadline had passed when
\* sendEmail looked, and the caller got the timeout error.
C16_Witness ==
    /\ SendReturned
    /\ lastRun.run = "exit"
    /\ lastRun.ctxDone
    /\ sendResult = "timeoutErr"

\* The positions of s that hold something other than ';'.
KeptPositions(s) == {i \in 1..Len(s) : s[i] # ";"}

\* t is s with exactly its ';' deleted: t has no ';', and the other pieces of
\* s are in t, each once, in the order they have in s.
IsWithoutSemicolons(t, s) ==
    /\ \A i \in 1..Len(t) : t[i] # ";"
    /\ Len(t) = Cardinality(KeptPositions(s))
    /\ \A i \in KeptPositions(s) :
          t[Cardinality({k \in KeptPositions(s) : k <= i})] = s[i]

\* C17: whatever the subject and the recipient, the arguments of the mail
\* subprocess are "-s", the subject and the recipient with exactly their ';'
\* deleted (no ';' left, every other character kept, in order), and the body
\* goes to the subprocess's standard input unchanged.
C17_ArgumentsWithoutSemicolons ==
    (pc \in {"mailRun", "returned"} /\ mailTotal = 1) =>
        /\ Len(mailArgs) = 3
        /\ mailArgs[1] = <<"-s">>
        /\ IsWithoutSemicolons(mailArgs[2], subject)
        /\ IsWithoutSemicolons(mailArgs[3], cfg.EmailRecipient)
        /\ mailStdin = body

\* A subject with two ';' and a recipient with one went to the subprocess,
\* with a body that holds a ';'.
C17_Witness ==
    /\ pc = "mailRun"
    /\ subject = <<"a", ";", "b", ";">>
    /\ cfg.EmailRecipient = <<"r", ";", "c">>
    /\ body = <<"x", ";", "y">>
    /\ mailArgs = <<<<"-s">>, <<"a", "b">>, <<"r", "c">>>>
    /\ mailStdin = body

\* --------------------------------------------- getCPUTemperature, called alone

\* Sensor contents put together from leading and trailing white space, a
\* sign, and a text.
ReadTexts ==
    {<<"4", "2", "0", "0", "0">>, <<"6", "5", "5", "0", "0">>, <<"0">>,
     <<"4", "2", ".", "5">>, <<".", "5">>, <<"6", "e", "4">>, <<"6", "5", "E", "+", "3">>,
     <<"N", "a", "N">>, <<"I", "n", "f">>, <<"i", "n", "f", "i", "n", "i", "t", "y">>,
     <<>>, <<"4", "x">>, <<".">>, <<"1", "e">>, <<"4", " ", "2">>, <<"i", "n", "f", "i">>}

ReadContents ==
    {l \o sg \o t \o r : l \in {<<>>, <<" ">>}, sg \in {<<>>, <<"-">>, <<"+">>},
                         t \in ReadTexts, r \in {<<>>, <<"\n">>}}

ReadStates ==
    {[readable |-> FALSE, content |-> <<>>]}
        \cup {[readable |-> TRUE, content |-> c] : c \in ReadContents}

InitRead ==
    /\ pc = "getCPUTemperature"
    /\ mode = "call"
    /\ argv = [recipient |-> <<>>, threshold |-> Whole(60), interval |-> 1,
               testEmail |-> FALSE]
    /\ hostEnv = [ok |-> FALSE, name |-> <<>>]
    /\ mailFile = [stat |-> "ok", isDir |-> FALSE, perm |-> 493]
    /\ cfg = [EmailRecipient |-> noEmailRecipient, TempThreshold |-> Whole(60),
              CheckInterval |-> 1, TestEmailFlag |-> FALSE, Hostname |-> unknownHost]
    /\ subject = <<>>
    /\ body = <<>>
    /\ Fresh

\* One call of getCPUTemperature, the sensor file as it is at the call.
GetTemperature ==
    /\ pc = "getCPUTemperature"
    /\ \E s \in ReadStates :
         LET r == GetCPUTemperature(s)
         IN  lastRead' = [raw |-> s, err |-> r.err, val |-> r.val]
    /\ reads' = reads + 1
    /\ pc' = "returned"
    /\ UNCHANGED <<mode, argv, hostEnv, mailFile, cfg, sigNotify, sigChan, tickerOn, tickCh,
                   ticksFired, ticksLost, subject, body, mailArgs, mailStdin, sendResult,
                   mailTotal, lastRun, cyc, prev, log, exitCode, exitVia>>

NextRead == GetTemperature

ReadSpec == InitRead /\ [][NextRead]_vars

\* s without its leading sign, if it has one.
Unsigned(s) == IF s # <<>> /\ s[1] \in {"+", "-"} THEN Tail(s) ELSE s

\* s is an integer in decimal: an optional sign and one digit or more.
IsIntegerText(s) ==
    /\ Unsigned(s) # <<>>
    /\ \A i \in 1..Len(Unsigned(s)) : Unsigned(s)[i] \in Digits

\* m is digits with at most one point among them, and one digit at least.
IsMantissaText(m) ==
    /\ \A i \in 1..Len(m) : m[i] \in Digits \cup {"."}
    /\ Cardinality({i \in 1..Len(m) : m[i] = "."}) <= 1
    /\ \E i \in 1..Len(m) : m[i] \in Digits

\* s is a decimal floating-point literal as strconv.ParseFloat takes it: a
\* mantissa, then nothing or an exponent ("e" or "E" and an integer); or an
\* infinity; or "nan" without a sign (the letters in any case).
IsFloatText(s) ==
    \/ LowerAll(s) = <<"n", "a", "n">>
    \/ LowerAll(Unsigned(s)) \in {<<"i", "n", "f">>,
                                  <<"i", "n", "f", "i", "n", "i", "t", "y">>}
    \/ \E k \in 0..Len(Unsigned(s)) :
          LET u == Unsigned(s)
              m == SubSeq(u, 1, k)
              e == SubSeq(u, k + 1, Len(u))
          IN  /\ IsMantissaText(m)
              /\ e = <<>> \/ (e[1] \in {"e", "E"} /\ IsIntegerText(Tail(e)))

\* The call of getCPUTemperature has returned.
ReadReturned == pc = "returned" /\ reads = 1

\* C18 as stated: getCPUTemperature fails with a read error when the file
\* cannot be read and with a parse error whenever the trimmed content is not
\* an integer (a decimal such as 42.5, an exponent form, NaN, Inf, the empty
\* content); it succeeds only for an integer content.
C18_ParseErrorUnlessInteger ==
    ReadReturned =>
        LET t == TrimSpace(lastRead.raw.content)
        IN  /\ ~lastRead.raw.readable => lastRead.err = "io"
            /\ (lastRead.raw.readable /\ ~IsIntegerText(t)) => lastRead.err = "parse"
            /\ lastRead.err = "nil" => lastRead.raw.readable /\ IsIntegerText(t)

\* C18, amended: getCPUTemperature fails with a read error when the file
\* cannot be read and with a parse error whenever the trimmed content is not
\* a floating-point literal (the empty content, text that is no number); it
\* succeeds for every integer content, and for a decimal such as 42.5, an
\* exponent form, NaN and Inf as well.
C18_ParseErrorUnlessFloat ==
    ReadReturned =>
        LET t == TrimSpace(lastRead.raw.content)
        IN  /\ ~lastRead.raw.readable => lastRead.err = "io"
            /\ (lastRead.raw.readable /\ ~IsFloatText(t)) => lastRead.err = "parse"
            /\ (lastRead.raw.readable /\ IsFloatText(t)) => lastRead.err = "nil"
            /\ (lastRead.raw.readable /\ IsIntegerText(t)) => lastRead.err = "nil"
            /\ (lastRead.raw.readable /\ t = <<>>) => lastRead.err = "parse"
            /\ lastRead.err \in {"io", "parse", "nil"}

\* The content "42.5" (and a newline) was read as 0.0425 degrees.
C18_Witness ==
    /\ ReadReturned
    /\ lastRead.raw = [readable |-> TRUE, content |-> <<"4", "2", ".", "5", "\n">>]
    /\ lastRead.err = "nil"
    /\ lastRead.val = F((425 * Scale) \div 10000)

\* The number an integer text stands for.
IntegerValue(s) == (IF s[1] = "-" THEN -1 ELSE 1) * DecVal(Unsigned(s))

\* The float64 of n thousandths.
Thousandths(n) == F(n * (Scale \div 1000))

\* C19: for an integer content m (white space around it allowed) the read
\* succeeds with m/1000, so the cycle alerts exactly when m > 1000 * t: with
\* 42000 and the threshold 60.0 there is no alert and no send; with 65500,
\* the threshold 60.0 and a recipient there is an alert and a send.
C19_IntegerReadingAndAlert ==
    (/\ cyc.mode # "none"
     /\ cyc.raw.readable
     /\ IsIntegerText(TrimSpace(cyc.raw.content))) =>
        LET m == IntegerValue(TrimSpace(cyc.raw.content))
            t == cfg.TempThreshold
        IN  /\ cyc.err = "nil"
            /\ cyc.temp = Thousandths(m)
            /\ t.k = "num" => (cyc.alert <=> Thousandths(m).v > t.v)
            /\ t.k = "nan" => ~cyc.alert
            /\ (m = 42000 /\ t = Whole(60)) =>
                   ~cyc.alert /\ cyc.mailRuns = 0 /\ cyc.done /\ ~InLog("ALERT")
            /\ (m = 65500 /\ t = Whole(60) /\ argv.recipient \notin {<<>>, noEmailRecipient}) =>
                   /\ cyc.alert
                   /\ cyc.done => cyc.mailRuns = 1
                   /\ ~cyc.done => cyc.mailRuns <= 1

\* A cycle read 65500 with the threshold 60.0 and a recipient, and its one
\* send went through.
C19_Witness ==
    /\ cyc.done
    /\ cyc.raw.content = <<"6", "5", "5", "0", "0", "\n">>
    /\ cfg.TempThreshold = Whole(60)
    /\ cyc.alert
    /\ cyc.mailRuns = 1
    /\ cyc.sent = "nil"

\* A cycle has begun and has not returned.
CycleRunning == Monitoring /\ (pc = "compare" \/ (cyc.mode # "none" /\ ~cyc.done))

\* The ticks taken from ticker.C so far.
TicksTaken == ticksFired - ticksLost - tickCh

\* C20: at most one cycle is in flight: a cycle begins only when none is
\* running; each tick taken at the select begins exactly one cycle, which
\* runs to its end before the select is reached again; and no tick and no
\* signal is taken from its channel while a cycle is running.
C20_OneCycleAtATime ==
    /\ []((CycleRunning /\ pc # "exited") => pc \in {"compare", "sendEmail", "mailRun"})
    /\ [](pc = "select" => cyc.done /\ ~CycleRunning)
    /\ []((Monitoring /\ pc # "exited") =>
             reads + (IF pc = "compare" THEN 1 ELSE 0) = 1 + TicksTaken)
    /\ [][(pc' = "compare" /\ pc # "compare") => ~CycleRunning]_vars
    /\ [][tickCh' < tickCh =>
             /\ pc = "select"
             /\ ~CycleRunning
             /\ tickCh' = tickCh - 1
             /\ pc' = "compare"
             /\ mode' = "tick"
             /\ reads' = reads]_vars
    /\ [][Len(sigChan') < Len(sigChan) => pc = "select" /\ ~CycleRunning]_vars
    /\ [][(Monitoring /\ reads' # reads) => reads' = reads + 1 /\ pc = "compare"]_vars

\* A tick's cycle is at its mail subprocess while a tick and a signal wait
\* in their channels.
C20_Witness ==
    /\ pc = "mailRun"
    /\ mode = "tick"
    /\ CycleRunning
    /\ tickCh = 1
    /\ sigChan # <<>>


\* ---------------------------------------------------- tempCheckLoop, called alone

\* The configurations tempCheckLoop is called with: a recipient, and an
\* interval that time.NewTicker takes (1) or refuses (0).
LoopConfigs ==
    [EmailRecipient : {<<"r", ";", "c">>}, TempThreshold : {Whole(60)},
     CheckInterval : {0, 1}, TestEmailFlag : {FALSE}, Hostname : {unknownHost}]

InitLoop ==
    /\ pc = "loop"
    /\ mode = "call"
    /\ argv = [recipient |-> <<>>, threshold |-> Whole(60), interval |-> 1,
               testEmail |-> FALSE]
    /\ hostEnv = [ok |-> FALSE, name |-> <<>>]
    /\ mailFile = [stat |-> "ok", isDir |-> FALSE, perm |-> 493]
    /\ cfg \in LoopConfigs
    /\ subject = <<>>
    /\ body = <<>>
    /\ Fresh

\* The counters ticksFired, ticksLost, reads and mailTotal only observe the
\* run: the program reads none of them.  Here the observer forgets what it
\* has counted, but for the tick that waits in ticker.C, so that a run of
\* the loop can have timer firings and cycles without end.
Recount ==
    /\ tickerOn
    /\ pc # "exited"
    /\ ticksFired # tickCh \/ ticksLost # 0 \/ reads # 0 \/ mailTotal # 0
    /\ ticksFired' = tickCh
    /\ ticksLost' = 0
    /\ reads' = 0
    /\ mailTotal' = 0
    /\ UNCHANGED <<pc, mode, argv, hostEnv, mailFile, cfg, sigNotify, sigChan, tickerOn,
                   tickCh, subject, body, mailArgs, mailStdin, sendResult, lastRead, lastRun,
                   cyc, prev, log, exitCode, exitVia>>

NextLoop ==
    \/ LoopSetup
    \/ TickCase
    \/ SignalCase
    \/ CompareTemperatures
    \/ SendEmail
    \/ MailRun
    \/ TimerFire
    \/ DeliverSignal
    \/ Recount

\* The loop takes its steps (weak fairness), and the select, which picks at
\* random among the cases that are ready, does not pass over a waiting
\* signal for ever (strong fairness of the signal case).
LoopSpec ==
    /\ InitLoop
    /\ [][NextLoop]_vars
    /\ WF_vars(ProgramStep)
    /\ SF_vars(SignalCase)

\* The timer has fired in this step.
TimerFired == ticksFired' = ticksFired + 1

\* C21 as stated: the firings of the timer during a cycle are neither
\* dropped nor queued for later; the next tick is delayed until the cycle has
\* ended.
C21_NoTickDropped ==
    /\ [][(TimerFired /\ CycleRunning) => ticksLost' = ticksLost]_vars
    /\ [](tickCh <= 1)
    /\ [][tickCh' < tickCh => pc = "select" /\ ~CycleRunning]_vars

\* C21, amended: of the firings of the timer during a cycle the first waits
\* in the ticker's one-slot channel and is taken only when the cycle has
\* ended (the next cycle is delayed, and then begins at once); every further
\* firing while a tick waits is dropped; no more than one tick ever waits,
\* and a firing never disturbs the running cycle.
C21_OneTickWaitsOthersDropped ==
    /\ [](tickCh \in {0, 1} /\ TicksTaken >= 0)
    /\ [][TimerFired =>
             /\ tickCh' = 1
             /\ ticksLost' = (IF tickCh = 0 THEN ticksLost ELSE ticksLost + 1)
             /\ pc' = pc /\ cyc' = cyc /\ reads' = reads /\ mailTotal' = mailTotal]_vars
    /\ [][ticksLost' > ticksLost => TimerFired /\ tickCh = 1]_vars
    /\ [][tickCh' < tickCh => pc = "select" /\ ~CycleRunning /\ pc' = "compare"]_vars
    /\ (tickCh = 1 /\ CycleRunning) ~> (pc = "select" \/ pc = "exited")
    /\ (tickCh = 1 /\ pc # "exited") ~> (tickCh = 0 \/ pc = "exited")

\* The timer fired twice during one cycle's mail subprocess: one tick waits
\* and one was dropped.
C21_Witness ==
    /\ pc = "mailRun"
    /\ CycleRunning
    /\ tickCh = 1
    /\ ticksLost = 1

\* A send that failed or timed out.
FailedSend(res) == res \in {"sendErr", "timeoutErr"}

\* C22: a failed or timed-out send is never retried: a cycle runs the mail
\* subprocess once at most, the return of the send (whatever its result)
\* ends the cycle, and a subprocess is run in a cycle only for that cycle's
\* own alert, whether the cycle before it failed to send or not.
C22_NoRetry ==
    /\ [](cyc.mailRuns <= 1 /\ mailTotal <= reads)
    /\ [](cyc.done /\ FailedSend(cyc.sent) => cyc.mailRuns = 1)
    /\ []((Monitoring /\ FailedSend(prev.sent) /\ cyc.mode = "tick" /\ ~cyc.alert) =>
             cyc.mailRuns = 0 /\ cyc.sent = "none")
    /\ [][(Monitoring /\ mailTotal' # mailTotal) =>
             /\ mailTotal' = mailTotal + 1
             /\ pc = "sendEmail"
             /\ cyc.alert /\ FloatGT(cyc.temp, cfg.TempThreshold)
             /\ cyc.mailRuns = 0 /\ cyc'.mailRuns = 1
             /\ cyc.sent = "none"]_vars
    /\ [][(Monitoring /\ pc = "mailRun" /\ pc' # "mailRun" /\ exitVia' # "sigdefault") =>
             cyc'.done /\ pc' = ReturnPc /\ mailTotal' = mailTotal]_vars

\* A cycle whose send timed out was followed by a cycle below the threshold,
\* which ran no mail subprocess: one subprocess in all.
C22_Witness ==
    /\ pc = "select"
    /\ prev.sent = "timeoutErr"
    /\ cyc.mode = "tick"
    /\ cyc.done
    /\ ~cyc.alert
    /\ mailTotal = 1

\* The signal case of the select has been taken.
ShuttingDown == exitVia = "shutdown"

\* C23: the shutdown is final: once the signal case has been taken the
\* process has ended, and there is no sensor read, no threshold evaluation,
\* no mail subprocess and no taking of a tick or of a signal after it.
C23_ShutdownIsTerminal ==
    /\ [](ShuttingDown => pc = "exited" /\ exitCode = 0 /\ ~CycleRunning)
    /\ [][ShuttingDown =>
             /\ pc' = "exited"
             /\ reads' = reads
             /\ lastRead' = lastRead
             /\ cyc' = cyc
             /\ prev' = prev
             /\ mailTotal' = mailTotal
             /\ lastRun' = lastRun
             /\ tickCh' = tickCh
             /\ sigChan' = sigChan
             /\ log' = log
             /\ exitVia' = exitVia]_vars
    /\ [][(~ShuttingDown /\ ShuttingDown') =>
             /\ pc = "select"
             /\ sigChan # <<>>
             /\ reads' = reads /\ mailTotal' = mailTotal /\ tickCh' = tickCh]_vars

\* The process shut down on a signal while a tick was waiting, after a
\* tick's cycle that ran the mail subprocess: the tick stays untaken.
C23_Witness ==
    /\ ShuttingDown
    /\ pc = "exited"
    /\ tickCh = 1
    /\ cyc.mode = "tick"
    /\ cyc.mailRuns = 1

\* A signal waits in the channel that signal.Notify has registered.
SignalPending == sigNotify /\ sigChan # <<>>

\* C24: a SIGINT or SIGTERM delivered while the loop is registered for
\* signals goes into the one-slot signal channel and stays there, through
\* any cycle in flight, until the signal case takes it; and with the select
\* fair between a ready tick and a ready signal the process then shuts down
\* in the end, also when a tick is ready at every select.
C24_PendingSignalShutsDown ==
    /\ [](Len(sigChan) <= 1 /\ (sigChan # <<>> => sigNotify))
    /\ [][(sigChan = <<>> /\ sigChan' # <<>>) =>
             /\ sigNotify
             /\ Head(sigChan') \in Signals
             /\ pc' = pc /\ cyc' = cyc /\ tickCh' = tickCh]_vars
    /\ [][SignalPending =>
             \/ sigChan' = sigChan /\ sigNotify'
             \/ /\ pc = "select"
                /\ sigChan' = <<>>
                /\ pc' = "exited"
                /\ exitVia' = "shutdown"
                /\ exitCode' = 0]_vars
    /\ SignalPending ~> (pc = "exited" /\ exitVia = "shutdown")

\* The signal case was taken at a select where a tick was ready too, after
\* a tick's cycle.
C24_Witness ==
    /\ pc = "exited"
    /\ exitVia = "shutdown"
    /\ tickCh = 1
    /\ cyc.mode = "tick"
    /\ cyc.done
    /\ InLog("Received signal terminated")

\* The configuration as flag parsing and the hostname resolution made it.
ConstructedConfig ==
    [EmailRecipient |-> argv.recipient, TempThreshold |-> argv.threshold,
     CheckInterval |-> argv.interval, TestEmailFlag |-> argv.testEmail,
     Hostname |-> IF hostEnv.ok THEN hostEnv.name ELSE unknownHost]

\* main has constructed the configuration.
Constructed == cfg # ZeroConfig

\* main has called showConfiguration.
Displayed == mode # "none"

\* C25 as stated: once constructed, the configuration is never changed:
\* the display of the configuration, the test-email send, every cycle and
\* the signal handling leave every field as it is.
C25_ConfigNeverMutated ==
    /\ [](Constructed => cfg = ConstructedConfig)
    /\ [][Constructed => cfg' = cfg]_vars

\* C25, amended: once constructed, the configuration is changed in one
\* place only: showConfiguration, before the test-email send and before any
\* cycle, puts the sentinel "<none>" in the place of an empty recipient and
\* leaves a recipient that was given, and every other field, as it is.  No
\* later step changes any field, so every cycle sees the same recipient,
\* threshold, interval and hostname.
C25_ConfigMutatedOnceByDisplay ==
    /\ []((Constructed /\ ~Displayed) => cfg = ConstructedConfig)
    /\ [](Displayed =>
             cfg = [ConstructedConfig EXCEPT
                      !.EmailRecipient = IF argv.recipient = <<>> THEN noEmailRecipient
                                         ELSE argv.recipient])
    /\ [][(Constructed /\ pc # "showConfig") => cfg' = cfg]_vars
    /\ [][pc = "showConfig" =>
             /\ cfg'.TempThreshold = cfg.TempThreshold
             /\ cfg'.CheckInterval = cfg.CheckInterval
             /\ cfg'.TestEmailFlag = cfg.TestEmailFlag
             /\ cfg'.Hostname = cfg.Hostname
             /\ cfg.EmailRecipient # <<>> => cfg'.EmailRecipient = cfg.EmailRecipient
             /\ (cfg.EmailRecipient = <<>> /\ Displayed') =>
                    cfg'.EmailRecipient = noEmailRecipient
             /\ reads = 0 /\ mailTotal = 0 /\ cyc = NoCycle]_vars

\* Two cycles have run on a configuration whose empty recipient was
\* replaced by the sentinel.
C25_Witness ==
    /\ pc = "select"
    /\ argv.recipient = <<>>
    /\ cfg.EmailRecipient = noEmailRecipient
    /\ cfg # ConstructedConfig
    /\ reads = 2

====
